---- MODULE Spec2Model ----
(***************************************************************************)
(* BPM Grid (mvforge): the renderer's session state, its event handlers    *)
(* and the grid arithmetic they use.                                       *)
(*                                                                         *)
(* Numbers.  JavaScript numbers are modelled as exact rationals <<n, d>>   *)
(* in lowest terms with d > 0, so 60/bpm, t/eighth, Math.round, Math.floor,*)
(* Math.ceil, % and toFixed are computed as the code computes them, up to  *)
(* the last-bit error of IEEE doubles, which is far below the 1e-4         *)
(* tolerance the code itself works with.  null is the empty tuple and NaN is   *)
(* <<0, 0>>.                                                               *)
(***************************************************************************)
EXTENDS Integers, Sequences, FiniteSets, TLC

\* null is the empty tuple, NaN is 0/0
NULL == << >>
NaN  == << 0, 0 >>

(* ---------------------------------------------------------------------- *)
(* Rational arithmetic                                                     *)
(* ---------------------------------------------------------------------- *)
Abs(i) == IF i < 0 THEN -i ELSE i

RECURSIVE GCD(_, _)
GCD(a, b) == IF b = 0 THEN a ELSE GCD(b, a % b)

Rat(n, d) ==
    LET s == IF d < 0 THEN -1 ELSE 1
        g == GCD(Abs(n), Abs(d))
    IN  << (s * n) \div g, (s * d) \div g >>

Num(i)  == << i, 1 >>

\* sums and comparisons go over the least common denominator
RAdd(x, y) ==
    LET g == GCD(x[2], y[2])
    IN  Rat(x[1] * (y[2] \div g) + y[1] * (x[2] \div g), x[2] * (y[2] \div g))
RSub(x, y) ==
    LET g == GCD(x[2], y[2])
    IN  Rat(x[1] * (y[2] \div g) - y[1] * (x[2] \div g), x[2] * (y[2] \div g))
\* products are reduced crosswise before they are formed
RMul(x, y) ==
    LET g1 == GCD(Abs(x[1]), Abs(y[2]))
        g2 == GCD(Abs(y[1]), Abs(x[2]))
    IN  Rat((x[1] \div g1) * (y[1] \div g2), (x[2] \div g2) * (y[2] \div g1))
RDiv(x, y) == RMul(x, << y[2], y[1] >>)
RLt(x, y)  ==
    LET g == GCD(x[2], y[2]) IN x[1] * (y[2] \div g) < y[1] * (x[2] \div g)
RLe(x, y)  ==
    LET g == GCD(x[2], y[2]) IN x[1] * (y[2] \div g) <= y[1] * (x[2] \div g)
RAbs(x)    == << Abs(x[1]), x[2] >>

\* Math.floor, Math.ceil, Math.round (half-way cases go up), truncation
RFloor(x) == x[1] \div x[2]
RCeil(x)  == -((-x[1]) \div x[2])
RRound(x) == (2 * x[1] + x[2]) \div (2 * x[2])
RTrunc(x) == IF x[1] < 0 THEN RCeil(x) ELSE RFloor(x)

\* v % m of JavaScript: the remainder has the sign of the dividend
RMod(v, m) == RSub(v, RMul(Num(RTrunc(RDiv(v, m))), m))

\* parseFloat(x.toFixed(k)): the nearest decimal with k digits, half-way
\* cases away from zero
RECURSIVE Pow10(_)
Pow10(k) == IF k = 0 THEN 1 ELSE 10 * Pow10(k - 1)
ToFixed(x, k) ==
    LET m == RRound(RMul(RAbs(x), Num(Pow10(k))))
    IN  Rat(IF x[1] < 0 THEN -m ELSE m, Pow10(k))

(* ---------------------------------------------------------------------- *)
(* Grid Math                                                               *)
(* ---------------------------------------------------------------------- *)
calcGrid(bpm) ==
    LET q == RDiv(Num(60), bpm)
    IN  [ eighth_note    |-> RDiv(q, Num(2)),
          quarter_note   |-> q,
          half_note      |-> RMul(q, Num(2)),
          downbeat_whole |-> RMul(q, Num(4)) ]

\* snapping down to the eighth before t
snapToGridFloor(t, eighth) == RMul(Num(RFloor(RDiv(t, eighth))), eighth)

snapToGrid(t, eighth) == RMul(Num(RRound(RDiv(t, eighth))), eighth)

eps == Rat(1, 10000)

near(v, mod) ==
    LET r == RMod(RAdd(RMod(v, mod), mod), mod)
    IN  RLt(r, eps) \/ RLt(RSub(mod, r), eps)

classifyBeat(snapped, grid) ==
    IF near(snapped, grid.downbeat_whole) THEN "downbeat"
    ELSE IF near(snapped, grid.half_note) THEN "half"
    ELSE IF near(snapped, grid.quarter_note) THEN "quarter"
    ELSE "offbeat"


(* ---------------------------------------------------------------------- *)
(* The environment: files, and what the external collaborators answer      *)
(* ---------------------------------------------------------------------- *)
\* A path is the sequence of its segments; path.basename is the last one.
basename(p) == p[Len(p)]

TrackA == << "music", "A.mp3" >>
TrackB == << "music", "B.mp3" >>
Files  == { TrackA, TrackB }

\* AudioBuffer.duration of the decoded file, in seconds
DurationOf(f) == IF f = TrackA THEN Num(3) ELSE Rat(5, 2)

\* What new MusicTempo(channelData).tempo can give for the file: a tempo,
\* or the constructor throws
TempoOutcomes(f) ==
    IF f = TrackA THEN { [threw |-> FALSE, tempo |-> Rat(9996, 100)] }
                  ELSE { [threw |-> TRUE,  tempo |-> NULL],
                         [threw |-> FALSE, tempo |-> Num(300)],
                         [threw |-> FALSE, tempo |-> Rat(399, 10)] }

\* What the transcription of the file resolves with: {ok: false, error}
\* or {ok: true, data: {words}}
WordsOf(f) ==
    IF f = TrackA
    THEN << [word |-> "never", start |-> Rat(14996, 100000)],
            [word |-> "gonna", start |-> Rat(13, 10)] >>
    ELSE << [word |-> "hello", start |-> Rat(12496, 100000)] >>

TranscribeOutcomes(f) == { [ok |-> FALSE, words |-> << >>],
                           [ok |-> TRUE,  words |-> WordsOf(f)] }

\* The values parseFloat(el.bpmInput.value) can give
BpmInputs == { NaN, Num(0), Num(-90), Num(90), Num(120), Num(300) }

\* The texts of the manual lyrics box, each as the tokens that
\* text.trim().split(/\s+/).filter(Boolean) gives
LyricsInputs == { << >>, << "la" >>, << "la", "di" >> }

ClipGood == << "video", "c1.mp4" >>
ClipBad  == << "video", "bad.mp4" >>
ClipNext == << "video", "c2.mp4" >>
ClipFiles == { ClipGood, ClipBad, ClipNext }

\* What getMediaDuration resolves with for the file
ProbeOutcomes(c) ==
    IF c = ClipBad THEN { NULL, Num(0) }
    ELSE IF c = ClipGood THEN { Num(2), Rat(3, 2) }
    ELSE { Num(2) }

\* The batches a drop or the open-clips dialog can hand to addClips
ClipBatches == { << ClipGood >>, << ClipBad, ClipNext >> }

MaxLoads    == 2
MaxClips    == 2
MaxClipJobs == 1

(* ---------------------------------------------------------------------- *)
(* State                                                                   *)
(* ---------------------------------------------------------------------- *)
VARIABLES
    state,        \* the renderer's state object
    el,           \* what the handlers leave in the DOM (a canvas: NULL until
                  \* first drawn, then the width it was last drawn at)
    loads,        \* handleFile calls awaiting decodeAudioData, per file
    transcribing, \* the audioPath of the transcription in flight, or NULL
    clipJobs,     \* addClips calls awaiting getMediaDuration
    pythonProbe,  \* initPython awaits find-python
    threw         \* the last handler step ended in an uncaught exception

vars == << state, el, loads, transcribing, clipJobs, pythonProbe, threw >>

Init ==
    /\ state = [ filePath |-> NULL, audioBuffer |-> NULL, bpm |-> NULL,
                 duration |-> NULL, grid |-> NULL, lyricsGrid |-> << >>,
                 pythonCmd |-> NULL, clips |-> << >> ]
    /\ el = [ dropSectionHidden |-> FALSE, mainContentHidden |-> TRUE,
              lyricsSectionHidden |-> TRUE, statusBarHidden |-> TRUE,
              headerStatus |-> "",
              transcribeBtnDisabled |-> FALSE,
              waveformCanvas |-> NULL, timelineCanvas |-> NULL,
              footage |-> NULL ]
    /\ loads = [ f \in Files |-> 0 ]
    /\ transcribing = NULL
    /\ clipJobs = << >>
    /\ pythonProbe = TRUE
    /\ threw = FALSE

\* A handler runs on the world it finds and leaves the world it made.
World == [ state |-> state, el |-> el, threw |-> FALSE ]
Commit(w) == state' = w.state /\ el' = w.el /\ threw' = w.threw

\* JavaScript truthiness of a number-or-null
Truthy(x) == x # NULL /\ x # NaN /\ x[1] # 0


(* ---------------------------------------------------------------------- *)
(* Audio loading and tempo detection                                       *)
(* ---------------------------------------------------------------------- *)
\* A message is a string; setStatus(null) is written setStatus(w, ""), which
\* the test "if (msg)" treats alike.
setStatus(w, msg) ==
    IF msg # ""
    THEN [w EXCEPT !.el.statusBarHidden = FALSE, !.el.headerStatus = msg]
    ELSE [w EXCEPT !.el.statusBarHidden = TRUE,  !.el.headerStatus = ""]

\* loadAudioFile after decodeAudioData has resolved
loadAudioFileResolved(w, filePath) ==
    [w EXCEPT !.state.audioBuffer = filePath,
              !.state.duration    = DurationOf(filePath),
              !.state.filePath    = filePath]

\* detectBPM's result for one outcome of music-tempo
detectBPM(outcome) ==
    IF outcome.threw THEN NULL
    ELSE IF RLe(Num(40), outcome.tempo) /\ RLe(outcome.tempo, Num(280))
         THEN Rat(RRound(RMul(outcome.tempo, Num(10))), 10)
         ELSE NULL

(* ---------------------------------------------------------------------- *)
(* Canvas                                                                  *)
(* ---------------------------------------------------------------------- *)
PX_PER_BEAT == 30

\* canvasWidth rounding the width down
canvasWidthFloor(st) ==
    IF ~Truthy(st.bpm) \/ ~Truthy(st.duration) THEN 800
    ELSE RFloor(RMul(RDiv(st.duration, RDiv(Num(60), st.bpm)), Num(PX_PER_BEAT))) + 60

canvasWidth(st) ==
    IF ~Truthy(st.bpm) \/ ~Truthy(st.duration) THEN 800
    ELSE RCeil(RMul(RDiv(st.duration, RDiv(Num(60), st.bpm)), Num(PX_PER_BEAT))) + 60

\* The canvas is sized to canvasWidth() and the layer is painted over it.
drawWaveform(w) ==
    IF w.state.audioBuffer = NULL THEN w
    ELSE [w EXCEPT !.el.waveformCanvas = [width |-> canvasWidth(w.state)]]

\* (t / state.duration) * canvasWidth(): with no duration, or a duration of
\* 0, the quotient is not a position (NaN for t = 0)
timeToX(st, t) ==
    IF ~Truthy(st.duration) THEN NaN
    ELSE RMul(RDiv(t, st.duration), Num(canvasWidth(st)))

\* The grid layer keeps, with its width, where timeToX put the first tick of
\* the ruler (sec = 0).
drawTimeline(w) ==
    IF ~Truthy(w.state.bpm) \/ ~Truthy(w.state.duration) THEN w
    ELSE [w EXCEPT !.el.timelineCanvas = [width  |-> canvasWidth(w.state),
                                          ruler0 |-> timeToX(w.state, Num(0))]]

(* ---------------------------------------------------------------------- *)
(* Word alignment                                                          *)
(* ---------------------------------------------------------------------- *)
renderLyricsGrid(w) == [w EXCEPT !.el.lyricsSectionHidden = FALSE]

\* One element of the words.map of processWords
gridEntry(wd, grid) ==
    LET raw     == wd.start
        snapped == snapToGrid(raw, grid.eighth_note)
    IN  [ word          |-> wd.word,
          raw_start     |-> ToFixed(raw, 4),
          snapped_start |-> ToFixed(snapped, 4),
          type          |-> classifyBeat(snapped, grid) ]

\* With no grid the first grid.eighth_note is a TypeError, before
\* state.lyricsGrid is assigned.
processWords(w, words) ==
    IF w.state.grid = NULL /\ words # << >>
    THEN [w EXCEPT !.threw = TRUE]
    ELSE LET w1 == [w EXCEPT !.state.lyricsGrid =
                        [ i \in 1..Len(words) |-> gridEntry(words[i], w.state.grid) ]]
         IN  drawTimeline(renderLyricsGrid(w1))

Max(a, b) == IF a > b THEN a ELSE b

\* words: the tokens of the text.  A null duration counts as 0 in
\* duration / grid.quarter_note.
distributeManualLyrics(w, words) ==
    IF w.state.grid = NULL
    THEN [w EXCEPT !.threw = TRUE]
    ELSE LET duration   == IF w.state.duration = NULL THEN Num(0) ELSE w.state.duration
             quarter    == w.state.grid.quarter_note
             totalBeats == RFloor(RDiv(duration, quarter))
             step       == Max(1, totalBeats \div Len(words))
         IN  processWords(w,
                 [ i \in 1..Len(words) |->
                     [ word  |-> words[i],
                       start |-> RMul(Num((i - 1) * step), quarter) ] ])

(* ---------------------------------------------------------------------- *)
(* BPM apply                                                               *)
(* ---------------------------------------------------------------------- *)
\* applyBPM computing the grid once and keeping it afterwards
applyBPMStaleGrid(w, bpm) ==
    IF ~Truthy(bpm) \/ RLe(bpm, Num(0)) THEN w
    ELSE drawTimeline([w EXCEPT !.state.bpm = bpm,
                                !.state.grid = IF @ = NULL THEN calcGrid(bpm) ELSE @])

\* applyBPM without the re-snap of the existing lyrics
applyBPMNoResnap(w, bpm) ==
    IF ~Truthy(bpm) \/ RLe(bpm, Num(0)) THEN w
    ELSE drawTimeline([w EXCEPT !.state.bpm = bpm, !.state.grid = calcGrid(bpm)])

\* applyBPM re-snapping from the previous snapped timestamps
applyBPMFromSnapped(w, bpm) ==
    IF ~Truthy(bpm) \/ RLe(bpm, Num(0)) THEN w
    ELSE LET w2 == drawTimeline([w EXCEPT !.state.bpm = bpm, !.state.grid = calcGrid(bpm)])
         IN  IF Len(w2.state.lyricsGrid) > 0
             THEN processWords(w2,
                      [ i \in 1..Len(w2.state.lyricsGrid) |->
                          [ word  |-> w2.state.lyricsGrid[i].word,
                            start |-> w2.state.lyricsGrid[i].snapped_start ] ])
             ELSE w2

applyBPM(w, bpm) ==
    IF ~Truthy(bpm) \/ RLe(bpm, Num(0)) THEN w
    ELSE LET w1 == [w EXCEPT !.state.bpm = bpm, !.state.grid = calcGrid(bpm)]
             w2 == drawTimeline(w1)
         IN  IF Len(w2.state.lyricsGrid) > 0
             THEN processWords(w2,
                      [ i \in 1..Len(w2.state.lyricsGrid) |->
                          [ word  |-> w2.state.lyricsGrid[i].word,
                            start |-> w2.state.lyricsGrid[i].raw_start ] ])
             ELSE w2


(* ---------------------------------------------------------------------- *)
(* Footage tracker                                                         *)
(* ---------------------------------------------------------------------- *)
\* "m:ss" as << m, s >>
fmtSec(sec) == << RFloor(RDiv(sec, Num(60))), RFloor(RMod(sec, Num(60))) >>

RECURSIVE SumDurations(_)
SumDurations(clips) ==
    IF clips = << >> THEN Num(0)
    ELSE RAdd(clips[1].duration, SumDurations(Tail(clips)))

RMin(x, y) == IF RLt(y, x) THEN y ELSE x
RMax(x, y) == IF RLt(x, y) THEN y ELSE x

renderClipList(st, songDur) ==
    [ i \in 1..Len(st.clips) |->
        [ name  |-> st.clips[i].name,
          dur   |-> fmtSec(st.clips[i].duration),
          width |-> IF RLt(Num(0), songDur)
                    THEN ToFixed(RMin(RMul(RDiv(st.clips[i].duration, songDur), Num(100)),
                                      Num(100)), 1)
                    ELSE ToFixed(Num(0), 1) ] ]

\* updateFootageTracker with the label taken from the clamped percent
updateFootageTrackerClampedLabel(w) ==
    LET songDur    == IF Truthy(w.state.duration) THEN w.state.duration ELSE Num(0)
        totalClip  == SumDurations(w.state.clips)
        rawPct     == IF RLt(Num(0), songDur)
                      THEN RMul(RDiv(totalClip, songDur), Num(100)) ELSE Num(0)
        displayPct == RMin(rawPct, Num(100))
        remaining  == RMax(RSub(songDur, totalClip), Num(0))
        done       == RLe(Num(100), rawPct)
        over       == RLt(Num(100), rawPct)
    IN  [w EXCEPT !.el.footage =
            [ fillWidth |-> displayPct,
              class     |-> IF over THEN "over" ELSE IF done THEN "done" ELSE "",
              pct       |-> RRound(displayPct),
              added     |-> fmtSec(totalClip),
              total     |-> IF RLt(Num(0), songDur) THEN fmtSec(songDur) ELSE NULL,
              full      |-> done,
              remaining |-> IF done THEN NULL
                            ELSE IF RLt(Num(0), songDur) THEN fmtSec(remaining) ELSE NULL,
              clipList  |-> renderClipList(w.state, songDur) ]]

\* The figures the tracker shows: a text that reads "—" is NULL
updateFootageTracker(w) ==
    LET songDur    == IF Truthy(w.state.duration) THEN w.state.duration ELSE Num(0)
        totalClip  == SumDurations(w.state.clips)
        rawPct     == IF RLt(Num(0), songDur)
                      THEN RMul(RDiv(totalClip, songDur), Num(100)) ELSE Num(0)
        displayPct == RMin(rawPct, Num(100))
        remaining  == RMax(RSub(songDur, totalClip), Num(0))
        done       == RLe(Num(100), rawPct)
        over       == RLt(Num(100), rawPct)
    IN  [w EXCEPT !.el.footage =
            [ fillWidth |-> displayPct,
              class     |-> IF over THEN "over" ELSE IF done THEN "done" ELSE "",
              pct       |-> RRound(rawPct),
              added     |-> fmtSec(totalClip),
              total     |-> IF RLt(Num(0), songDur) THEN fmtSec(songDur) ELSE NULL,
              full      |-> done,
              remaining |-> IF done THEN NULL
                            ELSE IF RLt(Num(0), songDur) THEN fmtSec(remaining) ELSE NULL,
              clipList  |-> renderClipList(w.state, songDur) ]]

(* ---------------------------------------------------------------------- *)
(* Handlers                                                                *)
(* ---------------------------------------------------------------------- *)
PendingLoads == loads[TrackA] + loads[TrackB]

\* handleFile up to the await of decodeAudioData; readFileSync may throw,
\* which the catch turns into the error status.
handleFileBegin(w) ==
    setStatus([w EXCEPT !.el.dropSectionHidden = TRUE,
                        !.el.mainContentHidden = FALSE], "Loading audio...")

\* a catch that also drops the track
handleFileCatchClears(w) ==
    setStatus([w EXCEPT !.threw = FALSE, !.state.filePath = NULL,
                        !.state.audioBuffer = NULL, !.state.duration = NULL], "Error")

handleFileCatch(w) == setStatus([w EXCEPT !.threw = FALSE], "Error")

HandleFileDecoding(f) ==
    /\ ~el.dropSectionHidden
    /\ PendingLoads < MaxLoads
    /\ Commit(handleFileBegin(World))
    /\ loads' = [loads EXCEPT ![f] = @ + 1]
    /\ UNCHANGED << transcribing, clipJobs, pythonProbe >>

HandleFileUnreadable(f) ==
    /\ ~el.dropSectionHidden
    /\ Commit(handleFileCatch(handleFileBegin(World)))
    /\ UNCHANGED << loads, transcribing, clipJobs, pythonProbe >>

\* a drop on the drop zone, or a file picked in the open-file dialog
HandleFile(f) == HandleFileDecoding(f) \/ HandleFileUnreadable(f)

\* handleFile from the moment decodeAudioData resolves to its end: the
\* awaits that follow resolve in microtasks, no other handler runs between.
handleFileResolved(w, f, outcome) ==
    LET w1       == loadAudioFileResolved(w, f)
        w2       == setStatus(w1, "Detecting BPM...")
        detected == detectBPM(outcome)
        w3       == applyBPM(w2, IF Truthy(detected) THEN detected ELSE Num(120))
        w4       == drawTimeline(drawWaveform(w3))
        w5       == setStatus(w4, "")
    IN  IF w3.threw THEN handleFileCatch(w3)
        ELSE IF ~Truthy(detected)
             THEN setStatus(w5, "BPM detection failed")
             ELSE w5

DecodeResolvedWith(f, outcome) ==
    /\ loads[f] > 0
    /\ loads' = [loads EXCEPT ![f] = @ - 1]
    /\ Commit(handleFileResolved(World, f, outcome))
    /\ UNCHANGED << transcribing, clipJobs, pythonProbe >>

DecodeResolved(f) == \E outcome \in TempoOutcomes(f) : DecodeResolvedWith(f, outcome)

\* decodeAudioData rejects: the catch of handleFile
DecodeRejected(f) ==
    /\ loads[f] > 0
    /\ loads' = [loads EXCEPT ![f] = @ - 1]
    /\ Commit(handleFileCatch(World))
    /\ UNCHANGED << transcribing, clipJobs, pythonProbe >>

\* bpmInput 'change', and 'keydown' with Enter
BpmInput(v) ==
    /\ ~el.mainContentHidden
    /\ Commit(applyBPM(World, v))
    /\ UNCHANGED << loads, transcribing, clipJobs, pythonProbe >>

redetect(w, outcome) ==
    LET w1  == setStatus(w, "Detecting BPM...")
        bpm == detectBPM(outcome)
        w2  == IF Truthy(bpm) THEN applyBPM(w1, bpm) ELSE w1
    IN  setStatus(w2, "")

\* redetectBtn 'click' with a decoded track
RedetectWith(outcome) ==
    /\ ~el.mainContentHidden
    /\ state.audioBuffer # NULL
    /\ outcome \in TempoOutcomes(state.audioBuffer)
    /\ Commit(redetect(World, outcome))
    /\ UNCHANGED << loads, transcribing, clipJobs, pythonProbe >>

\* with none the handler returns at once
RedetectNoTrack ==
    /\ ~el.mainContentHidden
    /\ state.audioBuffer = NULL
    /\ Commit(World)
    /\ UNCHANGED << loads, transcribing, clipJobs, pythonProbe >>

AllTempoOutcomes == UNION { TempoOutcomes(f) : f \in Files }

Redetect == RedetectNoTrack \/ \E outcome \in AllTempoOutcomes : RedetectWith(outcome)

\* handleTranscribe up to the await of the 'transcribe' invoke
TranscribeClick ==
    /\ ~el.mainContentHidden
    /\ ~el.transcribeBtnDisabled
    /\ IF state.filePath = NULL \/ state.pythonCmd = NULL
       THEN Commit(World) /\ UNCHANGED transcribing
       ELSE /\ Commit(setStatus([World EXCEPT !.el.transcribeBtnDisabled = TRUE],
                                "Loading Whisper model..."))
            /\ transcribing' = state.filePath
    /\ UNCHANGED << loads, clipJobs, pythonProbe >>

\* onProgress: a line of the transcriber's stderr
TranscribeProgress ==
    /\ transcribing # NULL
    /\ Commit(setStatus(World, "Transcribing..."))
    /\ UNCHANGED << loads, transcribing, clipJobs, pythonProbe >>

\* handleTranscribe returning on a failure before it re-enables the button
handleTranscribeResultStaysDisabled(w, result) ==
    IF ~result.ok THEN setStatus(w, "Transcription failed")
    ELSE processWords(setStatus([w EXCEPT !.el.transcribeBtnDisabled = FALSE], ""),
                      result.words)

\* handleTranscribe from the result of the invoke
handleTranscribeResult(w, result) ==
    LET w1 == [w EXCEPT !.el.transcribeBtnDisabled = FALSE]
    IN  IF ~result.ok THEN setStatus(w1, "Transcription failed")
        ELSE processWords(setStatus(w1, ""), result.words)

TranscribeResult ==
    /\ transcribing # NULL
    /\ transcribing' = NULL
    /\ \E result \in TranscribeOutcomes(transcribing) :
           Commit(handleTranscribeResult(World, result))
    /\ UNCHANGED << loads, clipJobs, pythonProbe >>

\* manualApplyBtn 'click'
manualApply(w, words) ==
    IF words # << >> THEN distributeManualLyrics(w, words) ELSE w

ManualApply(words) ==
    /\ ~el.mainContentHidden
    /\ Commit(manualApply(World, words))
    /\ UNCHANGED << loads, transcribing, clipJobs, pythonProbe >>

\* resetApp as it was before the footage tracker: the clips are kept
resetAppKeepsClips(w) ==
    setStatus([w EXCEPT !.state.filePath = NULL, !.state.audioBuffer = NULL,
                        !.state.bpm = NULL, !.state.duration = NULL,
                        !.state.grid = NULL, !.state.lyricsGrid = << >>,
                        !.el.mainContentHidden = TRUE,
                        !.el.dropSectionHidden = FALSE,
                        !.el.lyricsSectionHidden = TRUE,
                        !.el.headerStatus = ""], "")

resetApp(w) ==
    LET w1 == [w EXCEPT !.state.filePath = NULL, !.state.audioBuffer = NULL,
                        !.state.bpm = NULL, !.state.duration = NULL,
                        !.state.grid = NULL, !.state.lyricsGrid = << >>,
                        !.state.clips = << >>,
                        !.el.mainContentHidden = TRUE,
                        !.el.dropSectionHidden = FALSE,
                        !.el.lyricsSectionHidden = TRUE,
                        !.el.headerStatus = ""]
    IN  setStatus(w1, "")

ResetApp ==
    /\ ~el.mainContentHidden
    /\ Commit(resetApp(World))
    /\ UNCHANGED << loads, transcribing, clipJobs, pythonProbe >>

\* initPython from the answer of find-python
initPythonResolved(w, cmd) ==
    IF cmd = NULL
    THEN [w EXCEPT !.state.pythonCmd = cmd, !.el.transcribeBtnDisabled = TRUE]
    ELSE [w EXCEPT !.state.pythonCmd = cmd]

InitPython(cmd) ==
    /\ pythonProbe
    /\ pythonProbe' = FALSE
    /\ Commit(initPythonResolved(World, cmd))
    /\ UNCHANGED << loads, transcribing, clipJobs >>

(* Footage handlers *)
RECURSIVE PendingClips(_)
PendingClips(jobs) ==
    IF jobs = << >> THEN 0 ELSE Len(jobs[1]) + PendingClips(Tail(jobs))

\* addClips up to its first await; a job is the files still to probe
AddClips(filePaths) ==
    /\ ~el.mainContentHidden
    /\ Len(clipJobs) < MaxClipJobs
    /\ Len(state.clips) + PendingClips(clipJobs) + Len(filePaths) <= MaxClips
    /\ clipJobs' = Append(clipJobs, filePaths)
    /\ Commit(World)
    /\ UNCHANGED << loads, transcribing, pythonProbe >>

\* addClips admitting every duration the probe could read, 0 included
addClipsResolvedAdmitsZero(w, fp, dur, last) ==
    LET w1 == IF dur # NULL /\ RLe(Num(0), dur)
              THEN [w EXCEPT !.state.clips =
                        Append(@, [name |-> basename(fp), path |-> fp, duration |-> dur])]
              ELSE w
    IN  IF last THEN updateFootageTracker(w1) ELSE w1

\* addClips from one answer of getMediaDuration to the next await or the end
addClipsResolved(w, fp, dur, last) ==
    LET w1 == IF Truthy(dur) /\ RLt(Num(0), dur)
              THEN [w EXCEPT !.state.clips =
                        Append(@, [name |-> basename(fp), path |-> fp, duration |-> dur])]
              ELSE w
    IN  IF last THEN updateFootageTracker(w1) ELSE w1

ProbeResolved(j) ==
    /\ j \in 1..Len(clipJobs)
    /\ LET job == clipJobs[j]
       IN  /\ \E dur \in ProbeOutcomes(Head(job)) :
                  Commit(addClipsResolved(World, Head(job), dur, Len(job) = 1))
           /\ clipJobs' = IF Len(job) = 1
                          THEN [ i \in 1..(Len(clipJobs) - 1) |->
                                   IF i < j THEN clipJobs[i] ELSE clipJobs[i + 1] ]
                          ELSE [clipJobs EXCEPT ![j] = Tail(job)]
    /\ UNCHANGED << loads, transcribing, pythonProbe >>

\* index counts from 0 as in the code; splice past the end removes nothing
removeClip(w, index) ==
    updateFootageTracker(
        [w EXCEPT !.state.clips =
            [ i \in 1..(Len(@) - (IF index < Len(@) THEN 1 ELSE 0)) |->
                IF i <= index THEN @[i] ELSE @[i + 1] ]])

\* a click on the remove button of a row of the rendered clip list
RemoveClip(index) ==
    /\ ~el.mainContentHidden
    /\ el.footage # NULL
    /\ index \in 0..(Len(el.footage.clipList) - 1)
    /\ Commit(removeClip(World, index))
    /\ UNCHANGED << loads, transcribing, clipJobs, pythonProbe >>

clearClips(w) == updateFootageTracker([w EXCEPT !.state.clips = << >>])

ClearClips ==
    /\ ~el.mainContentHidden
    /\ Commit(clearClips(World))
    /\ UNCHANGED << loads, transcribing, clipJobs, pythonProbe >>

Next ==
    \/ \E cmd \in { NULL, << "python3" >> } : InitPython(cmd)
    \/ \E f \in Files : HandleFile(f)
    \/ \E f \in Files : DecodeResolved(f)
    \/ \E f \in Files : DecodeRejected(f)
    \/ \E v \in BpmInputs : BpmInput(v)
    \/ Redetect
    \/ TranscribeClick
    \/ TranscribeProgress
    \/ TranscribeResult
    \/ \E words \in LyricsInputs : ManualApply(words)
    \/ ResetApp
    \/ \E filePaths \in ClipBatches : AddClips(filePaths)
    \/ \E j \in 1..MaxClipJobs : ProbeResolved(j)
    \/ \E index \in 0..(MaxClips - 1) : RemoveClip(index)
    \/ ClearClips

Spec == Init /\ [][Next]_vars

(* The footage handlers read and write state.clips, el.footage and         *)
(* clipJobs only, and no other handler but resetApp touches these: the     *)
(* session without them, and the footage tracker with loads, manual lyrics *)
(* and resets only, are checked on their own.                              *)
NextSession ==
    \/ \E cmd \in { NULL, << "python3" >> } : InitPython(cmd)
    \/ \E f \in Files : HandleFile(f)
    \/ \E f \in Files : DecodeResolved(f)
    \/ \E f \in Files : DecodeRejected(f)
    \/ \E v \in BpmInputs : BpmInput(v)
    \/ Redetect
    \/ TranscribeClick
    \/ TranscribeProgress
    \/ TranscribeResult
    \/ \E words \in LyricsInputs : ManualApply(words)
    \/ ResetApp

SpecSession == Init /\ [][NextSession]_vars

\* The 'transcribe' invoke settles when the transcriber's process closes or
\* fails to start, and the renderer then runs the rest of handleTranscribe.
SpecSessionFair == SpecSession /\ WF_vars(TranscribeResult)

NextFootage ==
    \/ \E f \in Files : HandleFile(f)
    \/ \E f \in Files : DecodeResolved(f)
    \/ \E f \in Files : DecodeRejected(f)
    \/ \E words \in LyricsInputs : ManualApply(words)
    \/ ResetApp
    \/ \E filePaths \in ClipBatches : AddClips(filePaths)
    \/ \E j \in 1..MaxClipJobs : ProbeResolved(j)
    \/ \E index \in 0..(MaxClips - 1) : RemoveClip(index)
    \/ ClearClips

SpecFootage == Init /\ [][NextFootage]_vars


(* ---------------------------------------------------------------------- *)
(* Properties                                                              *)
(* ---------------------------------------------------------------------- *)
Quiescent == PendingLoads = 0 /\ transcribing = NULL /\ clipJobs = << >>

\* C1: the Grid held by the session is the one 60/Tempo gives: with a Tempo,
\* quarter * Tempo = 60, eighth = quarter/2, half = 2*quarter and
\* downbeat = 4*quarter; without a Tempo there is no Grid.
C1_GridIsFunctionOfTempo ==
    IF state.bpm = NULL THEN state.grid = NULL
    ELSE /\ state.grid # NULL
         /\ RMul(state.grid.quarter_note, state.bpm) = Num(60)
         /\ RMul(state.grid.eighth_note, Num(2)) = state.grid.quarter_note
         /\ state.grid.half_note = RMul(Num(2), state.grid.quarter_note)
         /\ state.grid.downbeat_whole = RMul(Num(4), state.grid.quarter_note)

\* C1 witness: a loaded track whose detected Tempo was replaced by a manual
\* entry of 90, with the Grid of 90 (quarter 2/3 s).
C1_Witness ==
    /\ state.filePath # NULL
    /\ state.bpm = Num(90)
    /\ state.grid # NULL
    /\ state.grid.quarter_note = Rat(2, 3)

\* The rhythmic class of the n-th eighth-note multiple
ClassOfMultiple(n) ==
    IF n % 8 = 0 THEN "downbeat"
    ELSE IF n % 4 = 0 THEN "half"
    ELSE IF n % 2 = 0 THEN "quarter"
    ELSE "offbeat"

\* The entry sits on the n-th eighth of the grid, n >= 0, and carries its class
OnGrid(e, grid) ==
    LET n == RRound(RDiv(e.snapped_start, grid.eighth_note))
    IN  /\ n >= 0
        /\ e.snapped_start = ToFixed(RMul(Num(n), grid.eighth_note), 4)
        /\ e.type = ClassOfMultiple(n)

\* C2: between handler steps every entry's snapped timestamp is a
\* non-negative multiple of the eighth of the current Grid, to 4 decimals,
\* and its class is the class of that multiple under the current Grid.
C2_EntriesOnCurrentGrid ==
    \A i \in 1..Len(state.lyricsGrid) :
        /\ state.grid # NULL
        /\ OnGrid(state.lyricsGrid[i], state.grid)

\* C2 witness: transcribed words of track A, re-snapped by a manual Tempo of
\* 90: "gonna" (raw 1.3 s) sits on the 4th eighth, 1.3333 s.
C2_Witness ==
    /\ state.bpm = Num(90)
    /\ Len(state.lyricsGrid) = 2
    /\ state.lyricsGrid[2].word = "gonna"
    /\ state.lyricsGrid[2].snapped_start = Rat(13333, 10000)
    /\ state.lyricsGrid[2].type = "half"

\* C3: in every quiescent state with a loaded track the waveform layer and
\* the grid layer were both last drawn at canvasWidth() of the current
\* duration and Tempo.
C3_LayersShareWidth ==
    (Quiescent /\ state.audioBuffer # NULL) =>
        /\ el.waveformCanvas # NULL
        /\ el.timelineCanvas # NULL
        /\ el.waveformCanvas.width = canvasWidth(state)
        /\ el.timelineCanvas.width = canvasWidth(state)

\* C4: the Tempo, when present, lies in [40, 280].
C4_TempoInRange ==
    state.bpm # NULL => RLe(Num(40), state.bpm) /\ RLe(state.bpm, Num(280))


\* The entry sits on the multiple of the eighth that is nearest to its raw
\* timestamp
NearestOnGrid(e, grid) ==
    LET n == RRound(RDiv(e.snapped_start, grid.eighth_note))
    IN  /\ OnGrid(e, grid)
        /\ RLe(RMul(Num(2), RAbs(RSub(RMul(Num(n), grid.eighth_note), e.raw_start))),
               grid.eighth_note)

\* C5: a step that changes the Tempo while entries exist leaves a sequence
\* of the same length with the same word and raw_start at every index, each
\* entry snapped from its raw timestamp onto the new Grid.
C5_RetempoFromRaw ==
    [][ (state'.bpm # state.bpm /\ state'.bpm # NULL /\ state.lyricsGrid # << >>) =>
          /\ Len(state'.lyricsGrid) = Len(state.lyricsGrid)
          /\ \A i \in 1..Len(state.lyricsGrid) :
                /\ state'.lyricsGrid[i].word = state.lyricsGrid[i].word
                /\ state'.lyricsGrid[i].raw_start = state.lyricsGrid[i].raw_start
                /\ NearestOnGrid(state'.lyricsGrid[i], state'.grid) ]_vars

\* C5 witness: "la di" spread over track A at its detected Tempo of 100
\* ("di" at raw 1.2 s), then the Tempo set to 300 by hand: "di" keeps raw
\* 1.2 s and sits on the 12th eighth of the new Grid.
C5_Witness ==
    /\ state.bpm = Num(300)
    /\ Len(state.lyricsGrid) = 2
    /\ state.lyricsGrid[2].word = "di"
    /\ state.lyricsGrid[2].raw_start = Rat(12, 10)
    /\ state.lyricsGrid[2].snapped_start = Rat(12, 10)
    /\ state.lyricsGrid[2].type = "half"

\* C6: applying the Tempo that is already the current one (by the BPM input
\* or by a re-detection that finds it again) leaves every entry unchanged.
C6_RetempoIdempotent ==
    [][ ( \/ \E v \in BpmInputs : v = state.bpm /\ BpmInput(v)
          \/ \E o \in AllTempoOutcomes : detectBPM(o) = state.bpm /\ RedetectWith(o) )
        => state'.lyricsGrid = state.lyricsGrid ]_vars

\* C7: resetApp leaves the empty session: no track identity, audio,
\* duration, Tempo or Grid, no entries and no clips.
C7_ResetEmpties ==
    [][ ResetApp =>
          /\ state'.filePath = NULL
          /\ state'.audioBuffer = NULL
          /\ state'.duration = NULL
          /\ state'.bpm = NULL
          /\ state'.grid = NULL
          /\ state'.lyricsGrid = << >>
          /\ state'.clips = << >> ]_vars

\* C7 witness: the session is empty and the drop zone is back while the
\* canvases and the clip list still show a track and a clip: a populated
\* session was reset.
C7_Witness ==
    /\ el.mainContentHidden
    /\ el.waveformCanvas # NULL
    /\ el.footage # NULL
    /\ Len(el.footage.clipList) > 0
    /\ state.filePath = NULL
    /\ state.bpm = NULL
    /\ state.clips = << >>

DetectionFailed(o) == o.threw \/ RLt(o.tempo, Num(40)) \/ RLt(Num(280), o.tempo)

\* C8: every detection that fails or answers outside [40, 280], on load or
\* on re-detection, leaves the Tempo 120 and the status asking for a manual
\* entry.
C8_DetectionFallback ==
    [][ \A o \in AllTempoOutcomes :
          ( /\ DetectionFailed(o)
            /\ \/ \E f \in Files : o \in TempoOutcomes(f) /\ DecodeResolvedWith(f, o)
               \/ RedetectWith(o) )
          => /\ state'.bpm = Num(120)
             /\ el'.headerStatus = "BPM detection failed" ]_vars

\* C9: a load attempt that fails, at the read or at the decode, changes
\* nothing in the session, from its start to its failure, and ends with the
\* error status.
C9_FailedLoadKeepsSession ==
    [][ /\ (\E f \in Files : HandleFileDecoding(f)) => state' = state
        /\ (\E f \in Files : HandleFileUnreadable(f) \/ DecodeRejected(f))
             => (state' = state /\ el'.headerStatus = "Error") ]_vars

\* C9 witness: the error status of a failed load over a loaded track with
\* its Tempo and Grid.
C9_Witness ==
    /\ el.headerStatus = "Error"
    /\ state.filePath = TrackA
    /\ state.duration = DurationOf(TrackA)
    /\ state.bpm # NULL

ExternalTrouble ==
    \/ PendingLoads > 0
    \/ transcribing # NULL
    \/ el.headerStatus \in { "Error", "BPM detection failed", "Transcription failed" }

\* C10: while an external call is outstanding or has failed, a manual
\* Tempo and manual lyrics both complete without error and take effect.
C10_ManualNeverBlocked ==
    [][ ExternalTrouble =>
          /\ \A words \in LyricsInputs :
                (words # << >> /\ ManualApply(words)) =>
                    /\ ~threw'
                    /\ Len(state'.lyricsGrid) = Len(words)
                    /\ \A i \in 1..Len(words) : state'.lyricsGrid[i].word = words[i]
          /\ \A v \in BpmInputs :
                (Truthy(v) /\ RLt(Num(0), v) /\ BpmInput(v)) =>
                    /\ ~threw'
                    /\ state'.bpm = v
                    /\ state'.grid # NULL ]_vars

\* The external long-running calls outstanding: decodes, the transcription
\* and clip-duration probes (one per addClips call in flight)
ExternalCallsOutstanding ==
    PendingLoads + (IF transcribing # NULL THEN 1 ELSE 0) + Len(clipJobs)

\* C11: at most one external long-running call (decode, detection,
\* transcription, clip probe) is outstanding at any time.
C11_AtMostOneExternalCall == ExternalCallsOutstanding <= 1

(* ---------------------------------------------------------------------- *)
(* The grid arithmetic on a loaded track: tempos typed in the BPM input,   *)
(* transcripts handed to processWords, manual lyrics and the LRC export    *)
(* ---------------------------------------------------------------------- *)
TrackC == << "music", "C.mp3" >>

\* AudioBuffer.duration of the tracks loaded, in seconds
SongDurations == { Num(3), Num(30), Num(61) }

\* What detectBPM returned at the load
DetectedTempos == { Num(100), Num(120) }

\* Values typed in the BPM input: applyBPM takes every positive number
TypedTempos == { Num(40), Num(90), Rat(6138, 25), Num(280), Num(600000) }

\* The start times the transcription collaborator reports
RawTimes == { Num(0), Rat(14996, 100000), Rat(15, 100), Rat(2, 5),
              Rat(13, 10), Rat(5999, 100) }

Transcripts == { << [word |-> "yeah", start |-> t] >> : t \in RawTimes }

ManualTexts == { << "la" >>, << "la", "di", "da" >>,
                 << "w0", "w1", "w2", "w3", "w4", "w5", "w6", "w7", "w8", "w9" >> }

\* The session before any file
EmptyWorld ==
    [ state |-> [ filePath |-> NULL, audioBuffer |-> NULL, bpm |-> NULL,
                  duration |-> NULL, grid |-> NULL, lyricsGrid |-> << >>,
                  pythonCmd |-> NULL, clips |-> << >> ],
      el    |-> [ dropSectionHidden |-> FALSE, mainContentHidden |-> TRUE,
                  lyricsSectionHidden |-> TRUE, statusBarHidden |-> TRUE,
                  headerStatus |-> "",
                  transcribeBtnDisabled |-> FALSE,
                  waveformCanvas |-> NULL, timelineCanvas |-> NULL,
                  footage |-> NULL ],
      threw |-> FALSE ]

\* handleFile run to its end on a file of duration d whose tempo is
\* detected as v, after initPython found an interpreter
LoadedWorld(f, d, v) ==
    LET w0 == initPythonResolved(EmptyWorld, << "python3" >>)
        w1 == [handleFileBegin(w0) EXCEPT !.state.audioBuffer = f,
                                          !.state.duration    = d,
                                          !.state.filePath    = f]
        w2 == applyBPM(setStatus(w1, "Detecting BPM..."), v)
    IN  setStatus(drawTimeline(drawWaveform(w2)), "")

InitAlign ==
    /\ \E d \in SongDurations, v \in DetectedTempos :
           /\ state = LoadedWorld(TrackC, d, v).state
           /\ el    = LoadedWorld(TrackC, d, v).el
    /\ loads = [ f \in Files |-> 0 ]
    /\ transcribing = NULL
    /\ clipJobs = << >>
    /\ pythonProbe = FALSE
    /\ threw = FALSE

\* processWords on the words of a transcript
ProcessWords(words) ==
    /\ ~el.mainContentHidden
    /\ Commit(processWords(World, words))
    /\ UNCHANGED << loads, transcribing, clipJobs, pythonProbe >>

\* One line of the LRC text: [MM:SS.ss] word, as minutes, seconds to 2
\* decimals, word
buildLRC(st) ==
    [ i \in 1..Len(st.lyricsGrid) |->
        LET t == st.lyricsGrid[i].snapped_start
        IN  [ m    |-> RFloor(RDiv(t, Num(60))),
              s    |-> ToFixed(RMod(t, Num(60)), 2),
              word |-> st.lyricsGrid[i].word ] ]

\* exportLrc 'click' with the file saved
ExportLRC ==
    /\ ~el.mainContentHidden
    /\ ~el.lyricsSectionHidden
    /\ state.filePath # NULL
    /\ Commit([World EXCEPT !.el.headerStatus = "Saved"])
    /\ UNCHANGED << loads, transcribing, clipJobs, pythonProbe >>

NextAlign ==
    \/ \E v \in TypedTempos : BpmInput(v)
    \/ \E words \in Transcripts : ProcessWords(words)
    \/ \E words \in ManualTexts : ManualApply(words)
    \/ ExportLRC

SpecAlign == InitAlign /\ [][NextAlign]_vars

MaxMultiple == 16
MaxMeasure  == 2

\* classifyBeat gives the n-th eighth of the grid the class of n, for the
\* multiples up to MaxMultiple, and every measure start k * downbeat, k an
\* integer of either sign, the class "downbeat"
ClassifiesByMultiple(grid) ==
    /\ \A n \in 0..MaxMultiple :
           classifyBeat(RMul(Num(n), grid.eighth_note), grid) = ClassOfMultiple(n)
    /\ \A k \in (-MaxMeasure)..MaxMeasure :
           classifyBeat(RMul(Num(k), grid.downbeat_whole), grid) = "downbeat"

\* C12: under every Grid the session holds, classifyBeat answers by first
\* match downbeat, half, quarter, offbeat: the n-th eighth is a downbeat if
\* 8 divides n, else a half if 4 divides n, else a quarter if n is even,
\* else an offbeat, and every k * downbeat is a downbeat.
C12_ClassifyByPriority ==
    state.grid # NULL => ClassifiesByMultiple(state.grid)

\* The same for the Grids whose eighth is not below the tolerance of
\* classifyBeat
ClassifyByPriorityAboveTolerance ==
    (state.grid # NULL /\ RLe(eps, state.grid.eighth_note))
        => ClassifiesByMultiple(state.grid)

\* The raw times snapped: those of the transcripts and those the entries
\* of the session keep
SnapInputs == RawTimes \cup { state.lyricsGrid[i].raw_start : i \in 1..Len(state.lyricsGrid) }

\* C13: for every raw time t >= 0 and the eighth e of every Grid the
\* session holds, snapToGrid(t, e) is a non-negative multiple of e at
\* distance at most e/2 from t, and snapping it again returns it unchanged.
C13_SnapNearestIdempotent ==
    state.grid # NULL =>
        \A t \in SnapInputs :
            LET e == state.grid.eighth_note
                s == snapToGrid(t, e)
            IN  /\ RLe(Num(0), s)
                /\ RMod(s, e) = Num(0)
                /\ RLe(RMul(Num(2), RAbs(RSub(s, t))), e)
                /\ snapToGrid(s, e) = s

\* C13 witness: the word reported at 0.4 s sits on the first eighth of the
\* Grid of 90 BPM, 0.3333 s.
C13_Witness ==
    /\ state.bpm = Num(90)
    /\ Len(state.lyricsGrid) = 1
    /\ state.lyricsGrid[1].word = "yeah"
    /\ state.lyricsGrid[1].raw_start = Rat(2, 5)
    /\ state.lyricsGrid[1].snapped_start = Rat(3333, 10000)

\* The entries of the uniform distribution of the words over the session
\* st: entry i (from 0) has the raw timestamp i * step * quarter, kept to 4
\* decimals, with totalBeats = floor(duration / quarter) and
\* step = max(1, floor(totalBeats / n)); an absent duration counts as 0
UniformlyDistributed(st, words, entries) ==
    /\ Len(entries) = Len(words)
    /\ \A i \in 1..Len(words) : entries[i].word = words[i]
    /\ st.grid # NULL
    /\ LET quarter    == st.grid.quarter_note
           duration   == IF st.duration = NULL THEN Num(0) ELSE st.duration
           totalBeats == RFloor(RDiv(duration, quarter))
           step       == IF totalBeats \div Len(words) >= 1
                         THEN totalBeats \div Len(words) ELSE 1
       IN  \A i \in 1..Len(words) :
               entries[i].raw_start = ToFixed(RMul(Num((i - 1) * step), quarter), 4)

\* C14: every manual lyrics application of n >= 1 words leaves exactly n
\* entries in word order, entry i at the raw timestamp i * step * quarter.
C14_UniformDistribution ==
    [][ \A words \in ManualTexts \cup LyricsInputs :
          (words # << >> /\ ManualApply(words))
              => UniformlyDistributed(state, words, state'.lyricsGrid) ]_vars

\* The same for the applications made while the session holds a Grid
UniformDistributionWithGrid ==
    [][ \A words \in ManualTexts \cup LyricsInputs :
          (words # << >> /\ state.grid # NULL /\ ManualApply(words))
              => UniformlyDistributed(state, words, state'.lyricsGrid) ]_vars

\* Tempo 100, duration 30 s, 10 words: the word of index 3 is at 9.0 s
UniformDistributionScenario ==
    /\ state.bpm = Num(100) /\ state.duration = Num(30)
    /\ Len(state.lyricsGrid) = 10
    /\ state.lyricsGrid[4].word = "w3"
    /\ state.lyricsGrid[4].raw_start = Num(9)

\* The figures fig are those of the Footage Tracker for the clips and the
\* song duration: the sum of the clip durations against the song
FootageFigures(fig, clips, duration) ==
    LET songDuration       == IF duration = NULL THEN Num(0) ELSE duration
        totalClipDuration  == SumDurations(clips)
        rawPercent         == IF songDuration = Num(0) THEN Num(0)
                              ELSE RMul(RDiv(totalClipDuration, songDuration), Num(100))
        remaining          == IF RLt(totalClipDuration, songDuration)
                              THEN RSub(songDuration, totalClipDuration) ELSE Num(0)
        done               == RLe(Num(100), rawPercent)
        over               == RLt(Num(100), rawPercent)
    IN  /\ fig.full = done
        /\ (fig.class = "over") = over
        /\ (fig.class = "done") = (done /\ ~over)
        /\ (fig.class = "over") => fig.full
        /\ fig.fillWidth = (IF over THEN Num(100) ELSE rawPercent)
        /\ fig.pct = RRound(rawPercent)
        /\ fig.added = fmtSec(totalClipDuration)
        /\ (~done /\ songDuration # Num(0)) => fig.remaining = fmtSec(remaining)

\* a step that ends in updateFootageTracker
FootageUpdated ==
    \/ ClearClips
    \/ \E index \in 0..(MaxClips - 1) : RemoveClip(index)
    \/ \E j \in 1..Len(clipJobs) : Len(clipJobs[j]) = 1 /\ ProbeResolved(j)

\* C15: every run of updateFootageTracker shows the sum of the clip
\* durations, rawPercent = sum / song * 100 (0 with no song), remaining =
\* max(song - sum, 0), done iff rawPercent >= 100, over iff rawPercent > 100,
\* the fill clamped to 100 and the label the unclamped rounded percent.
C15_FootageFigures ==
    [][ FootageUpdated => FootageFigures(el'.footage, state'.clips, state'.duration) ]_vars

\* C15 witness: two clips of 2 s against the 3 s of track A: 133 percent
\* on the label, over, the fill at 100.
C15_Witness ==
    /\ state.duration = Num(3)
    /\ Len(state.clips) = 2
    /\ el.footage # NULL
    /\ el.footage.class = "over"
    /\ el.footage.pct = 133
    /\ el.footage.fillWidth = Num(100)
    /\ el.footage.full

\* exactly full: two clips of 1.5 s against 3 s are done and not over
FootageExactlyFull ==
    /\ el.footage # NULL
    /\ el.footage.class = "done"
    /\ el.footage.pct = 100

\* a duration the probe read, finite and above 0
PositiveDuration(dur) == dur # NULL /\ dur # NaN /\ RLt(Num(0), dur)

\* C16: every clip of the session has a positive, finite duration; a probe
\* answered for the first file of a batch appends that file with the
\* duration read when it is positive and leaves the clips alone when it is
\* none or zero, and the rest of the batch stays in line, in order.
C16_ClipsPositive ==
    [][ /\ \A i \in 1..Len(state'.clips) : PositiveDuration(state'.clips[i].duration)
        /\ \A j \in 1..Len(clipJobs) :
              ProbeResolved(j) =>
                  LET fp == Head(clipJobs[j])
                  IN  /\ \/ state'.clips = state.clips
                         \/ \E dur \in ProbeOutcomes(fp) :
                                /\ PositiveDuration(dur)
                                /\ state'.clips =
                                       Append(state.clips,
                                              [name |-> fp[Len(fp)], path |-> fp,
                                               duration |-> dur])
                      /\ (\A dur \in ProbeOutcomes(fp) : ~PositiveDuration(dur))
                             => state'.clips = state.clips
                      /\ (\A dur \in ProbeOutcomes(fp) : PositiveDuration(dur))
                             => Len(state'.clips) = Len(state.clips) + 1
                      /\ IF Len(clipJobs[j]) > 1
                         THEN /\ Len(clipJobs') = Len(clipJobs)
                              /\ clipJobs'[j] = Tail(clipJobs[j])
                         ELSE Len(clipJobs') = Len(clipJobs) - 1 ]_vars

\* C16 witness: of the batch bad.mp4, c2.mp4 the session holds c2.mp4 alone,
\* with the 2 s the probe read.
C16_Witness ==
    /\ clipJobs = << >>
    /\ Len(state.clips) = 1
    /\ state.clips[1].path = ClipNext
    /\ state.clips[1].duration = Num(2)
    /\ el.footage # NULL
    /\ Len(el.footage.clipList) = 1

\* the transcription in flight resolves with {ok: false, error}
TranscribeFailed ==
    /\ transcribing # NULL
    /\ transcribing' = NULL
    /\ Commit(handleTranscribeResult(World, [ok |-> FALSE, words |-> << >>]))
    /\ UNCHANGED << loads, clipJobs, pythonProbe >>

\* C17: a transcription that resolves with a failure leaves the session
\* state (Track, Tempo, Grid, entries) unchanged, shows the diagnostic and
\* re-enables the transcription button; and every transcription started
\* eventually resolves, with the button enabled again.
C17_FailedTranscriptionNotFatal ==
    /\ [][ TranscribeFailed =>
             /\ state' = state
             /\ ~threw'
             /\ el'.headerStatus = "Transcription failed"
             /\ ~el'.statusBarHidden
             /\ ~el'.transcribeBtnDisabled ]_vars
    /\ (transcribing # NULL) ~> (transcribing = NULL /\ ~el.transcribeBtnDisabled)

\* C17 witness: the failure message over a loaded track with its Tempo and
\* Grid, the transcription button enabled and nothing in flight.
C17_Witness ==
    /\ el.headerStatus = "Transcription failed"
    /\ ~el.transcribeBtnDisabled
    /\ transcribing = NULL
    /\ state.filePath # NULL
    /\ state.bpm # NULL
    /\ state.grid # NULL

\* C18: canvasWidth is ceil(duration / quarter * 30) + 60 when the session
\* has both a duration and a Tempo and 800 when either is absent, and no
\* grid layer was drawn with timeToX dividing by an absent or zero duration.
C18_CanvasWidth ==
    /\ IF state.duration # NULL /\ state.bpm # NULL
       THEN /\ state.grid # NULL
            /\ canvasWidth(state) =
                   RCeil(RMul(RDiv(state.duration, state.grid.quarter_note), Num(30))) + 60
            /\ timeToX(state, Num(0)) = Num(0)
       ELSE canvasWidth(state) = 800
    /\ el.timelineCanvas # NULL => el.timelineCanvas.ruler0 = Num(0)

\* C18 witness: track B (2.5 s) at 90 BPM: 2.5 / (2/3) * 30 = 112.5, drawn
\* 173 wide with the first tick of the ruler at 0.
C18_Witness ==
    /\ state.duration = Rat(5, 2)
    /\ state.bpm = Num(90)
    /\ canvasWidth(state) = 173
    /\ el.timelineCanvas # NULL
    /\ el.timelineCanvas.width = 173
    /\ el.timelineCanvas.ruler0 = Num(0)

\* the default width: a Tempo typed while the first decode is outstanding
CanvasWidthDefault ==
    /\ state.bpm # NULL
    /\ state.duration = NULL
    /\ canvasWidth(state) = 800
    /\ el.timelineCanvas = NULL

\* C19: the LRC text has one line per entry, in order, with MM the whole
\* minutes of the snapped time and SS.ss its remainder to 2 decimals, a
\* value from 00.00 to 59.99, so that MM * 60 + SS.ss is the snapped time
\* to hundredths.
C19_LrcLines ==
    LET lrc == buildLRC(state)
    IN  /\ Len(lrc) = Len(state.lyricsGrid)
        /\ \A i \in 1..Len(state.lyricsGrid) :
               LET t == state.lyricsGrid[i].snapped_start
               IN  /\ lrc[i].word = state.lyricsGrid[i].word
                   /\ lrc[i].m = RFloor(RDiv(t, Num(60)))
                   /\ RLe(Num(0), lrc[i].s)
                   /\ RLe(lrc[i].s, Rat(5999, 100))
                   /\ RAdd(Num(lrc[i].m * 60), lrc[i].s) = ToFixed(t, 2)

\* The same without the bound on the seconds field
LrcLinesSumToSnapped ==
    LET lrc == buildLRC(state)
    IN  /\ Len(lrc) = Len(state.lyricsGrid)
        /\ \A i \in 1..Len(state.lyricsGrid) :
               LET t == state.lyricsGrid[i].snapped_start
               IN  /\ lrc[i].word = state.lyricsGrid[i].word
                   /\ lrc[i].m = RFloor(RDiv(t, Num(60)))
                   /\ RAdd(Num(lrc[i].m * 60), lrc[i].s) = ToFixed(t, 2)

\* C20: the result of a transcription requested for a file that is no
\* longer the loaded track (another file was loaded, or the session was
\* reset) does not replace the entries of the session.
C20_TranscriptionForCurrentTrack ==
    [][ (TranscribeResult /\ transcribing # state.filePath)
            => state'.lyricsGrid = state.lyricsGrid ]_vars

\* The session holds nothing of a track and no clip
SessionIsEmpty ==
    /\ state.filePath = NULL
    /\ state.audioBuffer = NULL
    /\ state.duration = NULL
    /\ state.bpm = NULL
    /\ state.grid = NULL
    /\ state.lyricsGrid = << >>
    /\ state.clips = << >>

\* C21: the main content is hidden before the first load and from resetApp
\* to the next handleFile, and no clip can be added while it is hidden; as
\* long as it is hidden the session is empty, whatever was awaiting a
\* decode, a transcription or a duration probe when resetApp ran.
C21_ResetStaysEmpty == el.mainContentHidden => SessionIsEmpty

\* a clip whose probe was outstanding at the reset is in the session, with
\* the drop zone up
ClipAfterReset ==
    /\ el.mainContentHidden
    /\ state.filePath = NULL
    /\ state.clips # << >>

(* ---------------------------------------------------------------------- *)
(* Two loads in flight: file A was dropped, the session was reset while A  *)
(* was decoding (the drop zone is shown again) and file B was dropped.     *)
(* Both decodes succeed, in either order, and no further file is selected. *)
(* ---------------------------------------------------------------------- *)
OverlapWorld == handleFileBegin(resetApp(handleFileBegin(EmptyWorld)))

InitOverlap ==
    /\ state = OverlapWorld.state
    /\ el    = OverlapWorld.el
    /\ loads = [ f \in Files |-> 1 ]
    /\ transcribing = NULL
    /\ clipJobs = << >>
    /\ pythonProbe = TRUE
    /\ threw = FALSE

NextOverlap ==
    \/ \E cmd \in { NULL, << "python3" >> } : InitPython(cmd)
    \/ \E f \in Files : DecodeResolved(f)
    \/ \E v \in BpmInputs : BpmInput(v)
    \/ Redetect
    \/ TranscribeClick
    \/ TranscribeProgress
    \/ TranscribeResult
    \/ \E words \in LyricsInputs : ManualApply(words)

SpecOverlap == InitOverlap /\ [][NextOverlap]_vars

\* the state SpecOverlap starts in, as the session reaches it
OverlapReached ==
    /\ state = OverlapWorld.state
    /\ el    = OverlapWorld.el
    /\ loads = [ f \in Files |-> 1 ]

\* the Track of the session is the file f: identity, audio and duration
TrackIs(f) ==
    /\ state.filePath = f
    /\ state.audioBuffer = f
    /\ state.duration = DurationOf(f)

\* the Tempos a load of f can leave: the detected one, or 120
TempoOnLoad(f) ==
    { IF Truthy(detectBPM(o)) THEN detectBPM(o) ELSE Num(120) : o \in TempoOutcomes(f) }

\* C22: once both loads have finished the Track of the session is file B,
\* the file selected last, and the load that finishes last leaves a Tempo
\* of file B, in whichever order the two decodes complete.
C22_LastSelectedWins ==
    /\ [](PendingLoads = 0 => TrackIs(TrackB))
    /\ [][ (PendingLoads = 1 /\ \E f \in Files : DecodeResolved(f))
             => state'.bpm \in TempoOnLoad(TrackB) ]_vars

\* The Track is never a mix of two files, and a load leaves the Tempo of
\* the file it decoded: the last decode to complete wins, whole.
LastResolvedWinsWhole ==
    /\ [](state.filePath # NULL => TrackIs(state.filePath))
    /\ [][ \A f \in Files :
             DecodeResolved(f) => state'.filePath = f /\ state'.bpm \in TempoOnLoad(f) ]_vars

\* the transcription in flight resolves with {ok: true, data: {words}}
TranscribeDelivered ==
    /\ transcribing # NULL
    /\ transcribing' = NULL
    /\ Commit(handleTranscribeResult(World, [ok |-> TRUE, words |-> WordsOf(transcribing)]))
    /\ UNCHANGED << loads, clipJobs, pythonProbe >>

\* a step that runs processWords or distributeManualLyrics on the session
\* as it stands: a transcription result, or a manual lyrics application
AlignmentRuns ==
    \/ TranscribeDelivered
    \/ \E words \in LyricsInputs : words # << >> /\ ManualApply(words)

\* a re-tempo: applyBPM taking a Tempo over existing entries, which it
\* re-aligns on the Grid it has just computed
ReTempo ==
    \E v \in BpmInputs :
        /\ Truthy(v) /\ RLt(Num(0), v)
        /\ state.lyricsGrid # << >>
        /\ BpmInput(v)

\* C23: every step that aligns words (a transcription result, a manual
\* lyrics application, a re-tempo) finds a Grid and a duration in the
\* session and ends without an exception.
C23_AlignmentHasGrid ==
    [][ /\ AlignmentRuns => (state.grid # NULL /\ state.duration # NULL /\ ~threw')
        /\ ReTempo => (state'.grid # NULL /\ state.duration # NULL /\ ~threw') ]_vars

\* An alignment step fails exactly when the session has no Grid, and a
\* re-tempo never fails.
AlignmentFailsOnlyWithoutGrid ==
    [][ /\ AlignmentRuns => (threw' <=> state.grid = NULL)
        /\ ReTempo => (state'.grid # NULL /\ ~threw') ]_vars

\* a transcription result arrived after a reset and failed on the absent
\* Grid: nothing of a track in the session, the drop zone up, the exception
TranscriptAfterResetThrew ==
    /\ threw
    /\ el.mainContentHidden
    /\ state.filePath = NULL
    /\ state.grid = NULL
    /\ transcribing = NULL

\* manual lyrics aligned on a typed Tempo while the first file was still
\* decoding: entries, and neither a Track nor a duration
AlignedWithoutDuration ==
    /\ state.lyricsGrid # << >>
    /\ state.duration = NULL
    /\ state.filePath = NULL
    /\ PendingLoads > 0

\* C24: with no decode, transcription or probe outstanding, the figures
\* updateFootageTracker displayed last are those of the clips and the song
\* duration the session holds now, and the clip list shows those clips.
C24_FootageDisplayCurrent ==
    (Quiescent /\ el.footage # NULL) =>
        /\ FootageFigures(el.footage, state.clips, state.duration)
        /\ Len(el.footage.clipList) = Len(state.clips)
        /\ \A i \in 1..Len(state.clips) :
               el.footage.clipList[i].name = state.clips[i].name

\* after a reset the tracker still lists the clips the session has dropped
FootageStaleAfterReset ==
    /\ Quiescent
    /\ el.mainContentHidden
    /\ state.clips = << >>
    /\ el.footage # NULL
    /\ el.footage.clipList # << >>

\* a clip measured against no song although the track has since loaded:
\* 0 percent displayed for 2 s of footage over the 3 s of track A
FootageStaleAfterLoad ==
    /\ Quiescent
    /\ state.duration = Num(3)
    /\ Len(state.clips) = 1
    /\ state.clips[1].duration = Num(2)
    /\ el.footage # NULL
    /\ el.footage.pct = 0
    /\ el.footage.total = NULL

====
